---- MODULE Spec2Model ----
(***************************************************************************)
(* Model of the Instant Meshes remeshing add-on                            *)
(* (src/instant_meshes_addon/__init__.py): the OBJ writer and the manual   *)
(* OBJ parser, the command line built for the external tool, and the two   *)
(* operators that run it (the executable test and the remesh operator).    *)
(*                                                                         *)
(* Numbers.  A coordinate is an integer count of sub-units; SubUnits       *)
(* sub-units make 0.000001 and Micro * SubUnits make 1.0.  The text        *)
(* "{:.6f}" of a coordinate is the nearest multiple of 0.000001.           *)
(*                                                                         *)
(* Text.  An OBJ file is a sequence of lines.  A line is                   *)
(*   [tag, sep, args]: the characters of its first word, the character     *)
(*   that follows that word (" ", a tab, or the newline), and the other    *)
(*   whitespace-separated words.  A word is the sequence of its            *)
(*   '/'-separated components; a component is integer text, decimal text   *)
(*   with six decimals, any other text, or nothing.                        *)
(***************************************************************************)
EXTENDS Integers, Sequences, FiniteSets, TLC

VARIABLES
    \* ---- codec (write_obj_file / read_obj_file as functions) ----
    c_pc,        \* "start" | "written" | "read"
    c_obj,       \* the object given to write_obj_file: [data, matrix_world]
    c_origin,    \* "none" | "encoded" (written by write_obj_file) | "external"
    c_text,      \* the lines of the file
    c_readable,  \* whether open(filepath, 'r') and the reads succeed
    c_decoded    \* what the manual parser produced

codecVars == <<c_pc, c_obj, c_origin, c_text, c_readable, c_decoded>>

VARIABLES
    \* ---- the command line of the remesh operator, as a function ----
    k_pc,        \* "start" | "built"
    k_props,     \* scene.instant_meshes_properties
    k_cmd        \* the list handed to subprocess.run

cmdVars == <<k_pc, k_props, k_cmd>>

VARIABLES
    \* ---- one run of an operator (execute) ----
    pc,          \* the place reached in execute
    operator,    \* "none" | "probe" | "remesh"
    prefs,       \* the executable path and what the file system says of it
    props,       \* scene.instant_meshes_properties
    obj,         \* context.active_object: [name, data, matrix_world]
    scratch,     \* the temporary directory and its two files
    cmd,         \* the command of the remesh run
    child,       \* the child process: "none" | "running" | "exited" | "killed"
    launches,    \* calls of subprocess.run on the executable
    proc,        \* the completed process: exit code, output, what it wrote
    exc,         \* the exception being raised, or "none"
    reports,     \* the self.report calls, in order
    result,      \* "none" | "FINISHED" | "CANCELLED" | "RAISED"
    host,        \* what read_obj_file left in bpy.data and the scene
    new_obj,     \* the object read_obj_file returned, or NoNewObj
    stages       \* the stages of the run entered so far

opVars == <<pc, operator, prefs, props, obj, scratch, cmd, child, launches, proc,
            exc, reports, result, host, new_obj, stages>>

vars == <<codecVars, cmdVars, opVars>>

-----------------------------------------------------------------------------
(* Bounds of the model *)

SubUnits == 10
MaxVerts == 4
MaxLines == 3

(* 10^6: the six decimals of "{co.x:.6f}" *)
Micro == 1000000

-----------------------------------------------------------------------------
(* Vectors and the 4x4 world matrix, kept as its 3x3 part and translation *)

Vec(x, y, z) == <<x, y, z>>

Dot(r, v) == r[1] * v[1] + r[2] * v[2] + r[3] * v[3]

(* matrix.to_3x3() @ v *)
MatVec(L, v) == <<Dot(L[1], v), Dot(L[2], v), Dot(L[3], v)>>

(* matrix @ v.co: the 3x3 part, then the translation *)
Apply(M, v) == <<Dot(M.lin[1], v) + M.t[1],
                 Dot(M.lin[2], v) + M.t[2],
                 Dot(M.lin[3], v) + M.t[3]>>

Sign(x) == IF x > 0 THEN 1 ELSE IF x < 0 THEN -1 ELSE 0

(* normal.normalize(), for a vector along one axis (the only normals the
   model's meshes and matrices produce); the zero vector stays zero *)
Normalize(v) == <<Sign(v[1]) * Micro * SubUnits,
                  Sign(v[2]) * Micro * SubUnits,
                  Sign(v[3]) * Micro * SubUnits>>

IdentityLin == <<Vec(1, 0, 0), Vec(0, 1, 0), Vec(0, 0, 1)>>
Identity == [lin |-> IdentityLin, t |-> Vec(0, 0, 0)]

-----------------------------------------------------------------------------
(* Components, words and lines of OBJ text *)

IntC(n)  == [k |-> "int",   n |-> n, w |-> ""]
DecC(u)  == [k |-> "dec",   n |-> u, w |-> ""]
WordC(s) == [k |-> "word",  n |-> 0, w |-> s]
EmptyC   == [k |-> "empty", n |-> 0, w |-> ""]

Line(tag, sep, args) == [tag |-> tag, sep |-> sep, args |-> args]

(* f"{x:.6f}": the decimal text with six decimals nearest to x *)
Format6(x) == DecC((2 * x + SubUnits) \div (2 * SubUnits))

(* float(word): integer or decimal text, and nothing else *)
FloatOK(word) == Len(word) = 1 /\ word[1].k \in {"int", "dec"}
Float(word) == IF word[1].k = "int" THEN word[1].n * Micro * SubUnits
               ELSE word[1].n * SubUnits

(* int(text): integer text, and nothing else *)
IntOK(c) == c.k = "int"
IntVal(c) == c.n

(* line.startswith(prefix) *)
StartsWith(line, prefix) ==
    LET head == line.tag \o <<line.sep>>
    IN  /\ Len(head) >= Len(prefix)
        /\ \A i \in 1..Len(prefix) : head[i] = prefix[i]

-----------------------------------------------------------------------------
(* write_obj_file *)

HeaderLine ==
    Line(<<"#">>, " ", << <<WordC("OBJ")>>, <<WordC("file")>>, <<WordC("created")>>,
                          <<WordC("by")>>, <<WordC("Instant")>>, <<WordC("Meshes")>>,
                          <<WordC("Blender")>>, <<WordC("Addon")>> >>)

(* bmesh.ops.triangulate on one face: a triangle stays as it is; a larger
   polygon is split into Len(face) - 2 triangles (as a fan from its first
   vertex; the claims checked here only use triangle input) *)
TriangulateFace(face) ==
    [j \in 1..(Len(face) - 2) |-> <<face[1], face[j + 1], face[j + 2]>>]

RECURSIVE Triangulate(_)
Triangulate(faces) ==
    IF faces = <<>> THEN <<>>
    ELSE TriangulateFace(Head(faces)) \o Triangulate(Tail(faces))

(* f"v {co.x:.6f} {co.y:.6f} {co.z:.6f}\n" with co = matrix @ v.co *)
VertexLine(matrix, co) ==
    LET p == Apply(matrix, co)
    IN  Line(<<"v">>, " ", << <<Format6(p[1])>>, <<Format6(p[2])>>, <<Format6(p[3])>> >>)

(* f"vn {normal.x:.6f} ...\n" with normal = normalized matrix.to_3x3() @ v.normal *)
NormalLine(matrix, vnormal) ==
    LET q == Normalize(MatVec(matrix.lin, vnormal))
    IN  Line(<<"v", "n">>, " ", << <<Format6(q[1])>>, <<Format6(q[2])>>, <<Format6(q[3])>> >>)

(* A mutant of FaceWord: the 0-based index written as it is *)
FaceWordZeroBased(index) == <<IntC(index), EmptyC, IntC(index)>>

(* f"f {' '.join(f'{idx}//{idx}' ...)}\n" with idx = str(v.index + 1) *)
FaceWord(index) == <<IntC(index + 1), EmptyC, IntC(index + 1)>>

FaceLine(face) ==
    Line(<<"f">>, " ", [i \in 1..Len(face) |-> FaceWord(face[i])])

(* The lines write_obj_file(obj, filepath, triangulate) writes *)
WriteObj(o, triangulate) ==
    LET mesh   == o.data
        matrix == o.matrix_world
        faces  == IF triangulate THEN Triangulate(mesh.faces) ELSE mesh.faces
    IN  <<HeaderLine>>
        \o [i \in 1..Len(mesh.verts) |-> VertexLine(matrix, mesh.verts[i])]
        \o [i \in 1..Len(mesh.verts) |-> NormalLine(matrix, mesh.normals[i])]
        \o [i \in 1..Len(faces) |-> FaceLine(faces[i])]

-----------------------------------------------------------------------------
(* read_obj_file: the manual parser *)

(* One line of the loop: a vertex, a face, nothing, or a ValueError *)
ParseLine(line) ==
    IF StartsWith(line, <<"v", " ">>)
    THEN IF Len(line.args) >= 3                       \* len(parts) >= 4
         THEN IF \A i \in 1..3 : FloatOK(line.args[i])
              THEN [kind |-> "vertex",
                    val  |-> <<Float(line.args[1]), Float(line.args[2]),
                               Float(line.args[3])>>]
              ELSE [kind |-> "raise", val |-> <<>>]
         ELSE [kind |-> "skip", val |-> <<>>]
    ELSE IF StartsWith(line, <<"f", " ">>)
    THEN IF \A i \in 1..Len(line.args) : IntOK(line.args[i][1])
         THEN [kind |-> "face",
               val  |-> [i \in 1..Len(line.args) |-> IntVal(line.args[i][1]) - 1]]
         ELSE [kind |-> "raise", val |-> <<>>]
    ELSE [kind |-> "skip", val |-> <<>>]

DecodeFailed == [ok |-> FALSE, vertices |-> <<>>, faces |-> <<>>]

RECURSIVE ParseLines(_, _, _)
ParseLines(text, vertices, faces) ==
    IF text = <<>> THEN [ok |-> TRUE, vertices |-> vertices, faces |-> faces]
    ELSE LET r == ParseLine(Head(text))
         IN  CASE r.kind = "vertex" -> ParseLines(Tail(text), Append(vertices, r.val), faces)
               [] r.kind = "face"   -> ParseLines(Tail(text), vertices, Append(faces, r.val))
               [] r.kind = "skip"   -> ParseLines(Tail(text), vertices, faces)
               [] r.kind = "raise"  -> DecodeFailed

(* The vertices and faces handed to mesh.from_pydata, or the failure the
   except clause of read_obj_file turns into None *)
ReadObjManual(readable, text) ==
    IF readable THEN ParseLines(text, <<>>, <<>>) ELSE DecodeFailed

-----------------------------------------------------------------------------
(* Inputs of the codec *)

VecSet == {Vec(0, 0, 0), Vec(4, 0 - (3 * SubUnits) \div 2, 0),
           Vec(2 * SubUnits, 3 * SubUnits + 7, Micro * SubUnits)}

AxisZ == Vec(0, 0, 1)

(* Face lists over n vertices: triangles only, or with a quad *)
FaceLists(n) ==
    IF n = 3 THEN { << <<0, 1, 2>> >> }
    ELSE { << <<0, 1, 2>>, <<0, 2, n - 1>> >>,
           << <<n - 1, 1, 0>> >>,
           << <<0, 1, 2, n - 1>> >> }

MeshSet ==
    UNION { { [verts |-> vs, normals |-> [i \in 1..n |-> AxisZ], faces |-> fs] :
              vs \in [1..n -> VecSet], fs \in FaceLists(n) } : n \in 3..MaxVerts }

MatrixSet ==
    { Identity,
      [lin |-> IdentityLin, t |-> Vec(2 * SubUnits, 0, 0)],                      \* translation
      [lin |-> <<Vec(0, -1, 0), Vec(1, 0, 0), Vec(0, 0, 1)>>, t |-> Vec(0, 0, 0)], \* rotation about z
      [lin |-> <<Vec(2, 0, 0), Vec(0, 2, 0), Vec(0, 0, 2)>>, t |-> Vec(0, 3, 0)] } \* scale and translation

AllTriangles(mesh) == \A i \in 1..Len(mesh.faces) : Len(mesh.faces[i]) = 3

W(c) == <<c>>

(* Lines an external file may hold *)
LineSet ==
    { Line(<<"v">>, " ", <<W(IntC(1)), W(IntC(0)), W(IntC(-2))>>),
      Line(<<"v">>, " ", <<W(DecC(1)), W(DecC(-2)), W(IntC(0)), W(DecC(5))>>),
      Line(<<"v">>, " ", <<W(DecC(1)), W(DecC(2))>>),
      Line(<<"v">>, " ", <<W(DecC(1)), W(WordC("abc")), W(DecC(2))>>),
      Line(<<"v">>, "\t", <<W(IntC(1)), W(IntC(2)), W(IntC(3))>>),
      Line(<<"v", "n">>, " ", <<W(DecC(0)), W(DecC(0)), W(DecC(Micro))>>),
      Line(<<"#">>, " ", <<W(WordC("comment"))>>),
      Line(<<"f">>, " ", <<W(IntC(1)), W(IntC(2)), W(IntC(1))>>),
      Line(<<"f">>, " ", <<FaceWord(0), <<IntC(2), IntC(1)>>, W(IntC(1))>>),
      Line(<<"f">>, " ", <<W(IntC(3)), W(IntC(0)), W(IntC(-1))>>),
      Line(<<"f">>, " ", <<W(IntC(1)), W(WordC("x")), W(IntC(2))>>),
      Line(<<"f">>, " ", <<W(IntC(1)), <<EmptyC, IntC(2)>>, W(DecC(2))>>) }

TextSet == UNION { [1..n -> LineSet] : n \in 0..MaxLines }

-----------------------------------------------------------------------------
(* The codec as a state machine: a file is written by write_obj_file or
   comes from elsewhere, then the manual parser reads it *)

NoObj == [data |-> [verts |-> <<>>, normals |-> <<>>, faces |-> <<>>],
          matrix_world |-> Identity]

ObjSet == { [data |-> m, matrix_world |-> mw] : m \in MeshSet, mw \in MatrixSet }

CodecInit ==
    /\ c_pc = "start"
    /\ c_obj \in ObjSet \cup {NoObj}
    /\ c_origin = "none"
    /\ c_text = <<>>
    /\ c_readable = TRUE
    /\ c_decoded = DecodeFailed

CodecWrite ==
    /\ c_pc = "start"
    /\ c_text' = WriteObj(c_obj, TRUE)
    /\ c_origin' = "encoded"
    /\ c_pc' = "written"
    /\ UNCHANGED <<c_obj, c_readable, c_decoded>>
    /\ UNCHANGED <<cmdVars, opVars>>

CodecExternal ==
    /\ c_pc = "start"
    /\ c_obj = NoObj
    /\ \E t \in TextSet, r \in BOOLEAN :
          /\ c_text' = t
          /\ c_readable' = r
    /\ c_origin' = "external"
    /\ c_pc' = "written"
    /\ UNCHANGED <<c_obj, c_decoded>>
    /\ UNCHANGED <<cmdVars, opVars>>

CodecRead ==
    /\ c_pc = "written"
    /\ c_decoded' = ReadObjManual(c_readable, c_text)
    /\ c_pc' = "read"
    /\ UNCHANGED <<c_obj, c_origin, c_text, c_readable>>
    /\ UNCHANGED <<cmdVars, opVars>>

CodecNext == CodecWrite \/ CodecExternal \/ CodecRead

-----------------------------------------------------------------------------
(* Claims about the codec (checked under CodecSpec) *)

Abs(x) == IF x < 0 THEN 0 - x ELSE x

(* C8: for a mesh of triangles only and an identity world matrix, the manual
   parser applied to what write_obj_file(triangulate=True) wrote gives the
   same vertices in the same order, each coordinate the nearest multiple of
   0.000001 to the original, and the same faces with the same 0-based
   indices in the same order; the header and the vn lines add nothing. *)
C8_RoundTrip ==
    (/\ c_pc = "read"
     /\ c_origin = "encoded"
     /\ AllTriangles(c_obj.data)
     /\ c_obj.matrix_world = Identity)
    => /\ c_decoded.ok
       /\ Len(c_decoded.vertices) = Len(c_obj.data.verts)
       /\ \A i \in 1..Len(c_obj.data.verts) : \A a \in 1..3 :
             /\ 2 * Abs(c_decoded.vertices[i][a] - c_obj.data.verts[i][a]) <= SubUnits
             /\ c_decoded.vertices[i][a] % SubUnits = 0
       /\ c_decoded.faces = c_obj.data.faces

C8_Witness ==
    /\ c_pc = "read"
    /\ c_origin = "encoded"
    /\ AllTriangles(c_obj.data)
    /\ c_obj.matrix_world = Identity
    /\ Len(c_obj.data.faces) = 2
    /\ \E i \in 1..Len(c_obj.data.verts) :
          c_decoded.vertices[i] # c_obj.data.verts[i]

(* C9: every vertex index of every face the manual parser decoded lies in
   0 .. vertexCount - 1, vertexCount being the number of decoded vertices. *)
C9_IndicesInRange ==
    (c_pc = "read" /\ c_decoded.ok)
    => \A i \in 1..Len(c_decoded.faces) : \A j \in 1..Len(c_decoded.faces[i]) :
          /\ c_decoded.faces[i][j] >= 0
          /\ c_decoded.faces[i][j] <= Len(c_decoded.vertices) - 1

(* A record the claim calls malformed: a 'v' line whose first three
   components are not all numbers, an 'f' line with a word whose leading
   component is not an integer *)
Malformed(line) == ParseLine(line).kind = "raise"

RECURSIVE SkipMalformed(_)
SkipMalformed(text) ==
    IF text = <<>> THEN <<>>
    ELSE IF Malformed(Head(text)) THEN SkipMalformed(Tail(text))
    ELSE <<Head(text)>> \o SkipMalformed(Tail(text))

(* C10: the manual parser fails only when the file cannot be opened or read;
   in a readable text a malformed record is skipped and every well-formed
   record before and after it is decoded. *)
C10_MalformedSkipped ==
    (c_pc = "read" /\ c_readable)
    => /\ c_decoded.ok
       /\ c_decoded = ParseLines(SkipMalformed(c_text), <<>>, <<>>)

-----------------------------------------------------------------------------
(* The command line (InstantMeshesRemeshOperator.execute) *)

ExecutablePath == "/opt/InstantMeshes"
TempDir == "/tmp/tmpdir"

(* os.path.join(temp_dir, name) *)
PathJoin(dir, name) == dir \o "/" \o name

(* str(x) of an IntProperty value *)
StrInt(n) == ToString(n)

(* str(x) of a FloatProperty value holding a whole number of degrees *)
StrFloat(x) == ToString(x) \o ".0"

(* A mutant of TargetArgs: the face count passed whatever the target type *)
TargetArgsFacesOnly(p) == <<"-f", StrInt(p.face_count)>>

(* cmd.extend(["-f", ...]) or cmd.extend(["-v", ...]) *)
TargetArgs(p) ==
    IF p.target_count_type = "FACES"
    THEN <<"-f", StrInt(p.face_count)>>
    ELSE <<"-v", StrInt(p.vertex_count)>>

(* if p.crease_angle > 0: cmd.extend(["-a", str(p.crease_angle)]) *)
CreaseArgs(p) ==
    IF p.crease_angle > 0 THEN <<"-a", StrFloat(p.crease_angle)>> ELSE <<>>

BuildCmd(executable_path, input_path, output_path, p) ==
    <<executable_path, "-i", input_path, "-o", output_path>>
    \o TargetArgs(p)
    \o (IF p.preserve_sharp THEN <<"-c">> ELSE <<>>)
    \o (IF p.align_to_boundaries THEN <<"-b">> ELSE <<>>)
    \o (IF p.deterministic THEN <<"-d">> ELSE <<>>)
    \o CreaseArgs(p)

(* Values of the property group: the limits and defaults of the properties *)
MinCount == 10
DefaultCount == 5000
MaxCount == 1000000
DefaultCrease == 30
MaxCrease == 180

(* The defaults of the property group *)
DefaultProps ==
    [target_count_type |-> "FACES", face_count |-> DefaultCount,
     vertex_count |-> DefaultCount, preserve_sharp |-> TRUE,
     align_to_boundaries |-> TRUE, deterministic |-> FALSE,
     crease_angle |-> DefaultCrease]

PropsSet ==
    [target_count_type : {"FACES", "VERTICES"},
     face_count : {MinCount, DefaultCount},
     vertex_count : {MinCount + 1, MaxCount},
     preserve_sharp : BOOLEAN,
     align_to_boundaries : BOOLEAN,
     deterministic : BOOLEAN,
     crease_angle : {0, DefaultCrease, MaxCrease}]

CmdInit ==
    /\ k_pc = "start"
    /\ k_props \in PropsSet
    /\ k_cmd = <<>>

CmdBuild ==
    /\ k_pc = "start"
    /\ k_cmd' = BuildCmd(ExecutablePath, PathJoin(TempDir, "input.obj"),
                         PathJoin(TempDir, "output.obj"), k_props)
    /\ k_pc' = "built"
    /\ UNCHANGED k_props
    /\ UNCHANGED <<codecVars, opVars>>

CmdNext == CmdBuild

(* Positions of an argument in a command *)
Positions(c, arg) == {i \in 1..Len(c) : c[i] = arg}
Has(c, arg) == Positions(c, arg) # {}

(* The arguments after the target count, in command order *)
OptionFlags == <<"-c", "-b", "-d", "-a">>

(* C6: the command is executable, -i input, -o output, then exactly one of
   -f face_count (target type FACES) or -v vertex_count (otherwise), then
   -c iff preserve_sharp, -b iff align_to_boundaries, -d iff deterministic,
   -a crease_angle iff crease_angle > 0, in that order. *)
C6_Command ==
    k_pc = "built" =>
    /\ Len(k_cmd) >= 7
    /\ SubSeq(k_cmd, 1, 5) = <<ExecutablePath, "-i", PathJoin(TempDir, "input.obj"),
                               "-o", PathJoin(TempDir, "output.obj")>>
    /\ Cardinality(Positions(k_cmd, "-f") \cup Positions(k_cmd, "-v")) = 1
    /\ IF k_props.target_count_type = "FACES"
       THEN k_cmd[6] = "-f" /\ k_cmd[7] = StrInt(k_props.face_count)
       ELSE k_cmd[6] = "-v" /\ k_cmd[7] = StrInt(k_props.vertex_count)
    /\ Has(k_cmd, "-c") <=> k_props.preserve_sharp
    /\ Has(k_cmd, "-b") <=> k_props.align_to_boundaries
    /\ Has(k_cmd, "-d") <=> k_props.deterministic
    /\ Has(k_cmd, "-a") <=> k_props.crease_angle > 0
    /\ \A i \in 1..4 : Cardinality(Positions(k_cmd, OptionFlags[i])) <= 1
    /\ \A i \in 1..4 : \A j \in 1..4 : \A p \in Positions(k_cmd, OptionFlags[i]) :
          \A q \in Positions(k_cmd, OptionFlags[j]) : (i < j) => (7 < p /\ p < q)
    /\ \A p \in Positions(k_cmd, "-a") :
          p + 1 = Len(k_cmd) /\ k_cmd[p + 1] = StrFloat(k_props.crease_angle)
    /\ Len(k_cmd) = 7 + Cardinality({i \in 1..4 : Has(k_cmd, OptionFlags[i])})
                      + (IF Has(k_cmd, "-a") THEN 1 ELSE 0)

C6_Witness ==
    /\ k_pc = "built"
    /\ k_props.target_count_type = "VERTICES"
    /\ k_props.preserve_sharp /\ ~k_props.align_to_boundaries /\ k_props.deterministic
    /\ k_props.crease_angle > 0
    /\ Len(k_cmd) = 11

-----------------------------------------------------------------------------
(* Process output, files, reports: what the two operators work with *)

SharedLib  == "cannot open shared object file"
NoSuchFile == "No such file or directory"
PermDenied == "Permission denied"
NanoGUI    == "Cannot initialize NanoGUI"
Reproject  == "failed to reproject"

StderrPatterns == {SharedLib, NoSuchFile, PermDenied, NanoGUI, Reproject}
StdoutPatterns == {NanoGUI, Reproject}

(* A captured text: the patterns it contains, whether strip() leaves
   nothing, and whether it has whitespace at its ends (ws); id names the
   text *)
Text(id, blank, has) == [id |-> id, blank |-> blank, has |-> has, ws |-> FALSE]
Literal(id) == Text(id, FALSE, {})

(* The same text with whitespace around it, as a trailing newline *)
Padded(text) == [text EXCEPT !.ws = TRUE]

(* str.strip() *)
Strip(text) == [text EXCEPT !.ws = FALSE]

StderrSet ==
    LET plain == {Text("stderr", TRUE, {})}
                 \cup {Text("stderr", FALSE, h) : h \in SUBSET StderrPatterns}
    IN  plain \cup {Padded(t) : t \in plain}
StdoutSet == {Text("stdout", FALSE, h) : h \in SUBSET StdoutPatterns}

(* pattern in text *)
Contains(text, pattern) == pattern \in text.has

(* What `file <executable>` may print, or the probe failing *)
FileInfoSet ==
    {[ok |-> FALSE, has |-> {}]}
    \cup {[ok |-> TRUE, has |-> h] :
            h \in SUBSET {"shell script", "elf", "32-bit", "64-bit", "text"}}

(* The probe runs only when stderr.strip() is empty *)
FileProbe(stderr) ==
    IF stderr.blank THEN FileInfoSet ELSE {[ok |-> FALSE, has |-> {}]}

NoFile == [exists |-> FALSE, text |-> <<>>]
File(text) == [exists |-> TRUE, text |-> text]

NoScratch == [dir |-> FALSE, input |-> NoFile, output |-> NoFile]

(* A mutant of ExitScratch: a directory from mkdtemp that nobody removes *)
ExitScratchLeak(s) == s

(* Leaving `with tempfile.TemporaryDirectory() as temp_dir`: the directory
   and everything in it are removed, on return and on exception alike *)
ExitScratch(s) == NoScratch

Report(level, msg, detail, hint) ==
    [level |-> level, msg |-> msg, detail |-> detail, hint |-> hint]

NoDetail == Literal("")

(* timeout= of the two subprocess.run calls on the executable *)
ProbeTimeout == 10
RemeshTimeout == 120

(* Seconds the child would run if left alone *)
Durations == {ProbeTimeout, ProbeTimeout + 1, RemeshTimeout, RemeshTimeout + 1}

(* str(e) of the exceptions subprocess.run raises *)
ExcStr(e) ==
    CASE e = "TimeoutExpired"  -> Literal("Command timed out after 120 seconds")
      [] e = "PermissionError" -> Literal("[Errno 13] Permission denied")
      [] e = "OSError"         -> Literal("[Errno 8] Exec format error")

NoChild == [state |-> "none", ran |-> 0]

(* A mutant of RunTimedOut: waiting with a timeout and not killing the child *)
RunTimedOutNoKill(c) == c

(* subprocess.run on TimeoutExpired: process.kill(), wait, re-raise *)
RunTimedOut(c) == [c EXCEPT !.state = "killed"]

NoProc == [done |-> FALSE, returncode |-> 0, stdout |-> Text("stdout", TRUE, {}),
           stderr |-> Text("stderr", TRUE, {}), wrote |-> NoFile]

-----------------------------------------------------------------------------
(* Inputs of a run *)

PrefsSet ==
    { [executable_path |-> "",             exists |-> FALSE, xok |-> FALSE],
      [executable_path |-> ExecutablePath, exists |-> FALSE, xok |-> FALSE],
      [executable_path |-> ExecutablePath, exists |-> TRUE,  xok |-> FALSE],
      [executable_path |-> ExecutablePath, exists |-> TRUE,  xok |-> TRUE] }

RunProps ==
    { p \in PropsSet : /\ p.face_count = DefaultCount
                       /\ p.vertex_count = MaxCount
                       /\ p.preserve_sharp /\ p.align_to_boundaries /\ ~p.deterministic
                       /\ p.crease_angle = DefaultCrease }

RunMesh ==
    [verts   |-> <<Vec(0, 0, 0), Vec(4, 0 - (3 * SubUnits) \div 2, 0),
                   Vec(2 * SubUnits, 3 * SubUnits + 7, Micro * SubUnits)>>,
     normals |-> <<AxisZ, AxisZ, AxisZ>>,
     faces   |-> << <<0, 1, 2>> >>]

RunMatrices == {m \in MatrixSet : m.lin = IdentityLin \/ m.t # Vec(0, 0, 0)}

RunObjs == { [name |-> "Cube", data |-> RunMesh, matrix_world |-> mw] : mw \in RunMatrices }

(* Files the external tool may leave at the output path: none, the vertices
   and faces it was given, another mesh, a file with a malformed record *)
RemeshedText ==
    << Line(<<"v">>, " ", <<W(IntC(0)), W(IntC(0)), W(IntC(0))>>),
       Line(<<"v">>, " ", <<W(IntC(1)), W(IntC(0)), W(IntC(0))>>),
       Line(<<"v">>, " ", <<W(IntC(1)), W(IntC(1)), W(IntC(0))>>),
       Line(<<"v">>, " ", <<W(IntC(0)), W(IntC(1)), W(IntC(0))>>),
       Line(<<"f">>, " ", <<W(IntC(1)), W(IntC(2)), W(IntC(3)), W(IntC(4))>>) >>

BrokenText ==
    << Line(<<"v">>, " ", <<W(IntC(0)), W(IntC(0)), W(IntC(0))>>),
       Line(<<"f">>, " ", <<W(IntC(1)), W(WordC("x")), W(IntC(1))>>) >>

ToolOutputs(input) == {NoFile, File(input.text), File(RemeshedText), File(BrokenText)}

NoHost == [meshes |-> 0, objects |-> 0, linked |-> {}, selected |-> {}, active |-> "none"]

(* The scene before a run: the active object is selected *)
HostInit == [meshes |-> 0, objects |-> 0, linked |-> {}, selected |-> {"orig"},
             active |-> "orig"]

NoNewObj == [via |-> "none", name |-> "", vertices |-> <<>>, faces |-> <<>>,
             matrix_world |-> Identity]

-----------------------------------------------------------------------------
(* The classification of a finished process *)

(* InstantMeshesTestExecutable.execute, returncode != 0 *)
ProbeFailureReport(stderr) ==
    LET error_msg == IF stderr.blank
                     THEN Literal("No error output (check console for details)")
                     ELSE Strip(stderr)
    IN  IF Contains(stderr, SharedLib)
        THEN Report("ERROR", "Missing library dependencies", error_msg, "MissingLibrary")
        ELSE IF Contains(stderr, PermDenied)
        THEN Report("ERROR", "Permission denied. Make sure the file is executable",
                    NoDetail, "PermissionDenied")
        ELSE Report("ERROR", "Executable test failed", error_msg, "none")

(* The message built from `file <executable>` when stderr is empty *)
EnrichedMsg(file_info) ==
    IF ~file_info.ok THEN Literal("Unknown error (no error message returned)")
    ELSE IF "shell script" \in file_info.has
    THEN Literal("The executable appears to be a shell script")
    ELSE IF "elf" \in file_info.has
    THEN IF "32-bit" \in file_info.has /\ "64-bit" \notin file_info.has
         THEN Literal("The executable is a 32-bit binary")
         ELSE IF "64-bit" \in file_info.has
         THEN Literal("The executable is a 64-bit binary but failed silently")
         ELSE Literal("Unknown error (no error message returned)")
    ELSE IF "text" \in file_info.has
    THEN Literal("The file appears to be a text file, not an executable")
    ELSE Literal("Unknown error (no error message returned)")

(* A mutant of FailureHint: the missing-file pattern looked for first *)
FailureHintFileFirst(error_msg) ==
    IF Contains(error_msg, NoSuchFile) THEN "NoSuchFile"
    ELSE IF Contains(error_msg, SharedLib) THEN "MissingLibrary"
    ELSE IF Contains(error_msg, PermDenied) THEN "PermissionDenied"
    ELSE "none"

(* A mutant of FailureHint: permission denied looked for before the missing
   file *)
FailureHintPermFirst(error_msg) ==
    IF Contains(error_msg, SharedLib) THEN "MissingLibrary"
    ELSE IF Contains(error_msg, PermDenied) THEN "PermissionDenied"
    ELSE IF Contains(error_msg, NoSuchFile) THEN "NoSuchFile"
    ELSE "none"

(* The hint appended to error_msg: the first pattern found in it *)
FailureHint(error_msg) ==
    IF Contains(error_msg, SharedLib) THEN "MissingLibrary"
    ELSE IF Contains(error_msg, NoSuchFile) THEN "NoSuchFile"
    ELSE IF Contains(error_msg, PermDenied) THEN "PermissionDenied"
    ELSE "none"

(* InstantMeshesRemeshOperator.execute, process.returncode != 0 *)
RemeshFailureReport(stderr, file_info) ==
    LET error_msg == IF stderr.blank THEN EnrichedMsg(file_info) ELSE Strip(stderr)
    IN  Report("ERROR", "Instant Meshes failed", error_msg, FailureHint(error_msg))

(* InstantMeshesRemeshOperator.execute, not os.path.exists(output_path) *)
OutputMissingReport(stdout, stderr) ==
    IF Contains(stdout, NanoGUI) \/ Contains(stderr, NanoGUI)
    THEN Report("ERROR", "Instant Meshes GUI initialization failed", NoDetail, "none")
    ELSE IF Contains(stdout, Reproject) \/ Contains(stderr, Reproject)
    THEN Report("ERROR", "Instant Meshes failed to reproject the mesh", NoDetail, "none")
    ELSE Report("ERROR", "Output file not created", NoDetail, "none")

(* A mutant of OutputExists: the check left out *)
OutputExistsAlways(s) == TRUE

(* os.path.exists(output_path) *)
OutputExists(s) == s.output.exists

(* The remesh operator's check of the executable path *)
RemeshPreflight(pr) == pr.executable_path # "" /\ pr.exists

(* The three checks of the executable test, in order: the report of the
   first that fails, or "ok" *)
ProbePreflight(pr) ==
    IF pr.executable_path = "" THEN "No executable path set"
    ELSE IF ~pr.exists THEN "Executable not found at specified path"
    ELSE IF ~pr.xok THEN "File exists but is not executable"
    ELSE "ok"

-----------------------------------------------------------------------------
(* read_obj_file(filepath, context) *)

(* What the importer of the host does when bpy.ops.import_scene.obj is
   there: it raises, or imports and selects the new object, or leaves
   nothing selected *)
ImporterSet == {"absent", "raises", "imports", "selects_nothing"}

ReadObjFile(file, h, importer) ==
    IF importer = "raises"
    THEN [host |-> h, ret |-> NoNewObj]
    ELSE IF importer = "imports"
    THEN LET d == ReadObjManual(file.exists, file.text)
         IN  [host |-> [meshes |-> h.meshes + 1, objects |-> h.objects + 1,
                        linked |-> h.linked \cup {"new"}, selected |-> {"new"},
                        active |-> "new"],
              ret  |-> [via |-> "builtin", name |-> "output", vertices |-> d.vertices,
                        faces |-> d.faces, matrix_world |-> Identity]]
    ELSE LET made == [h EXCEPT !.meshes = @ + 1, !.objects = @ + 1]
             d    == ReadObjManual(file.exists, file.text)
         IN  IF ~d.ok
             THEN [host |-> made, ret |-> NoNewObj]
             ELSE [host |-> [made EXCEPT !.linked = @ \cup {"new"},
                                         !.selected = {"new"},
                                         !.active = "new"],
                   ret  |-> [via |-> "manual", name |-> "ImportedObject",
                             vertices |-> d.vertices, faces |-> d.faces,
                             matrix_world |-> Identity]]

(* new_obj.matrix_world = original_matrix; new_obj.name = f"{obj.name}_remeshed" *)
Finalize(n, original_matrix, name) ==
    [n EXCEPT !.matrix_world = original_matrix, !.name = name]

-----------------------------------------------------------------------------
(* One run of an operator *)

OpInit ==
    /\ pc = "Idle"
    /\ operator = "none"
    /\ prefs \in PrefsSet
    /\ props \in RunProps
    /\ obj \in RunObjs
    /\ scratch = NoScratch
    /\ cmd = <<>>
    /\ child = NoChild
    /\ launches = 0
    /\ proc = NoProc
    /\ exc = "none"
    /\ reports = <<>>
    /\ result = "none"
    /\ host = HostInit
    /\ new_obj = NoNewObj
    /\ stages = <<>>

(* ---- InstantMeshesTestExecutable.execute ---- *)

(* The three checks of the path *)
ProbeValidate ==
    /\ pc = "Idle"
    /\ operator' = "probe"
    /\ stages' = Append(stages, "Validating")
    /\ IF ProbePreflight(prefs) = "ok"
       THEN /\ pc' = "p_run"
            /\ UNCHANGED <<reports, result>>
       ELSE /\ reports' = Append(reports,
                                 Report("ERROR", ProbePreflight(prefs), NoDetail, "none"))
            /\ result' = "CANCELLED"
            /\ pc' = "done"
    /\ UNCHANGED <<prefs, props, obj, scratch, cmd, child, launches, proc, exc,
                   host, new_obj>>
    /\ UNCHANGED <<codecVars, cmdVars>>

(* subprocess.run([executable_path, "--help"], timeout=10): the child starts,
   or starting it raises *)
ProbeRun ==
    /\ pc = "p_run"
    /\ stages' = Append(stages, "Invoking")
    /\ launches' = launches + 1
    /\ \/ /\ \E d \in Durations : child' = [state |-> "running", ran |-> d]
          /\ pc' = "p_wait"
          /\ UNCHANGED exc
       \/ /\ exc' = "OSError"
          /\ pc' = "p_except"
          /\ UNCHANGED child
    /\ UNCHANGED <<operator, prefs, props, obj, scratch, cmd, proc, reports, result,
                   host, new_obj>>
    /\ UNCHANGED <<codecVars, cmdVars>>

(* The child ends within the timeout, or is killed when it has passed *)
ProbeWait ==
    /\ pc = "p_wait"
    /\ IF child.ran > ProbeTimeout
       THEN /\ child' = RunTimedOut(child)
            /\ exc' = "TimeoutExpired"
            /\ pc' = "p_except"
            /\ UNCHANGED proc
       ELSE /\ child' = [child EXCEPT !.state = "exited"]
            /\ \E rc \in {0, 1}, out \in StdoutSet, err \in StderrSet :
                  proc' = [done |-> TRUE, returncode |-> rc, stdout |-> out,
                           stderr |-> err, wrote |-> NoFile]
            /\ pc' = "p_result"
            /\ UNCHANGED exc
    /\ UNCHANGED <<operator, prefs, props, obj, scratch, cmd, launches, reports,
                   result, host, new_obj, stages>>
    /\ UNCHANGED <<codecVars, cmdVars>>

(* if result.returncode == 0 ... else ... *)
ProbeResult ==
    /\ pc = "p_result"
    /\ IF proc.returncode = 0
       THEN /\ reports' = Append(reports,
                   Report("INFO", "Instant Meshes executable is working correctly",
                          NoDetail, "none"))
            /\ result' = "FINISHED"
       ELSE /\ reports' = Append(reports, ProbeFailureReport(proc.stderr))
            /\ result' = "CANCELLED"
    /\ pc' = "done"
    /\ UNCHANGED <<operator, prefs, props, obj, scratch, cmd, child, launches, proc,
                   exc, host, new_obj, stages>>
    /\ UNCHANGED <<codecVars, cmdVars>>

(* except subprocess.TimeoutExpired / except Exception *)
ProbeExcept ==
    /\ pc = "p_except"
    /\ reports' = Append(reports,
          IF exc = "TimeoutExpired"
          THEN Report("ERROR", "Executable test timed out", NoDetail, "none")
          ELSE Report("ERROR", "Error testing executable", ExcStr(exc), "none"))
    /\ result' = "CANCELLED"
    /\ pc' = "done"
    /\ UNCHANGED <<operator, prefs, props, obj, scratch, cmd, child, launches, proc,
                   exc, host, new_obj, stages>>
    /\ UNCHANGED <<codecVars, cmdVars>>

(* ---- InstantMeshesRemeshOperator.execute ---- *)

(* if not executable_path or not os.path.exists(executable_path) *)
RemeshValidate ==
    /\ pc = "Idle"
    /\ operator' = "remesh"
    /\ stages' = Append(stages, "Validating")
    /\ IF RemeshPreflight(prefs)
       THEN /\ pc' = "r_encode"
            /\ UNCHANGED <<reports, result>>
       ELSE /\ reports' = Append(reports,
                   Report("ERROR", "Instant Meshes executable not found", NoDetail, "none"))
            /\ result' = "CANCELLED"
            /\ pc' = "done"
    /\ UNCHANGED <<prefs, props, obj, scratch, cmd, child, launches, proc, exc,
                   host, new_obj>>
    /\ UNCHANGED <<codecVars, cmdVars>>

(* The temporary directory is made and write_obj_file writes input.obj; an
   error while writing leaves execute as an exception, through the with *)
RemeshEncode ==
    /\ pc = "r_encode"
    /\ stages' = Append(stages, "Encoding")
    /\ \/ /\ scratch' = [dir |-> TRUE, input |-> File(WriteObj(obj, TRUE)),
                         output |-> NoFile]
          /\ pc' = "r_build"
          /\ UNCHANGED <<exc, result>>
       \/ /\ scratch' = ExitScratch([dir |-> TRUE, input |-> File(<<HeaderLine>>),
                                     output |-> NoFile])
          /\ exc' = "OSError"
          /\ result' = "RAISED"
          /\ pc' = "done"
    /\ UNCHANGED <<operator, prefs, props, obj, cmd, child, launches, proc, reports,
                   host, new_obj>>
    /\ UNCHANGED <<codecVars, cmdVars>>

(* cmd = [executable_path, "-i", input_path, "-o", output_path] ... *)
RemeshBuild ==
    /\ pc = "r_build"
    /\ stages' = Append(stages, "Invoking")
    /\ cmd' = BuildCmd(prefs.executable_path, PathJoin(TempDir, "input.obj"),
                       PathJoin(TempDir, "output.obj"), props)
    /\ pc' = "r_run"
    /\ UNCHANGED <<operator, prefs, props, obj, scratch, child, launches, proc, exc,
                   reports, result, host, new_obj>>
    /\ UNCHANGED <<codecVars, cmdVars>>

(* subprocess.run(cmd, timeout=120): the child starts, or starting it raises
   (always so for a file the user may not execute) *)
RemeshRun ==
    /\ pc = "r_run"
    /\ reports' = Append(reports,
          Report("INFO", "Running Instant Meshes, please wait...", NoDetail, "none"))
    /\ launches' = launches + 1
    /\ IF ~prefs.xok
       THEN /\ exc' = "PermissionError"
            /\ pc' = "r_except"
            /\ UNCHANGED child
       ELSE \/ /\ \E d \in Durations : child' = [state |-> "running", ran |-> d]
               /\ pc' = "r_wait"
               /\ UNCHANGED exc
            \/ /\ exc' = "OSError"
               /\ pc' = "r_except"
               /\ UNCHANGED child
    /\ UNCHANGED <<operator, prefs, props, obj, scratch, cmd, proc, result, host,
                   new_obj, stages>>
    /\ UNCHANGED <<codecVars, cmdVars>>

(* The child ends within the timeout, leaving an exit code, its output and
   maybe a file at the output path; or it is killed when the timeout passed *)
RemeshWait ==
    /\ pc = "r_wait"
    /\ IF child.ran > RemeshTimeout
       THEN /\ child' = RunTimedOut(child)
            /\ exc' = "TimeoutExpired"
            /\ pc' = "r_except"
            /\ UNCHANGED <<proc, scratch>>
       ELSE /\ child' = [child EXCEPT !.state = "exited"]
            /\ \E rc \in {0, 1}, out \in StdoutSet, err \in StderrSet,
                  f \in ToolOutputs(scratch.input) :
                  /\ proc' = [done |-> TRUE, returncode |-> rc, stdout |-> out,
                              stderr |-> err, wrote |-> f]
                  /\ scratch' = [scratch EXCEPT !.output = f]
            /\ pc' = "r_check"
            /\ UNCHANGED exc
    /\ UNCHANGED <<operator, prefs, props, obj, cmd, launches, reports, result, host,
                   new_obj, stages>>
    /\ UNCHANGED <<codecVars, cmdVars>>

(* if process.returncode != 0 ... ; if not os.path.exists(output_path) ... *)
RemeshCheck ==
    /\ pc = "r_check"
    /\ stages' = Append(stages, "AwaitingOutput")
    /\ IF proc.returncode # 0
       THEN /\ \E file_info \in FileProbe(proc.stderr) :
                  reports' = Append(reports, RemeshFailureReport(proc.stderr, file_info))
            /\ result' = "CANCELLED"
            /\ scratch' = ExitScratch(scratch)
            /\ pc' = "done"
       ELSE IF ~OutputExists(scratch)
       THEN /\ reports' = Append(reports, OutputMissingReport(proc.stdout, proc.stderr))
            /\ result' = "CANCELLED"
            /\ scratch' = ExitScratch(scratch)
            /\ pc' = "done"
       ELSE /\ pc' = "r_import"
            /\ UNCHANGED <<reports, result, scratch>>
    /\ UNCHANGED <<operator, prefs, props, obj, cmd, child, launches, proc, exc,
                   host, new_obj>>
    /\ UNCHANGED <<codecVars, cmdVars>>

(* new_obj = read_obj_file(output_path, context) *)
RemeshImport ==
    /\ pc = "r_import"
    /\ stages' = Append(stages, "Decoding")
    /\ \E importer \in ImporterSet :
          LET r == ReadObjFile(scratch.output, host, importer)
          IN  /\ host' = r.host
              /\ new_obj' = r.ret
    /\ pc' = "r_finalize"
    /\ UNCHANGED <<operator, prefs, props, obj, scratch, cmd, child, launches, proc,
                   exc, reports, result>>
    /\ UNCHANGED <<codecVars, cmdVars>>

(* if new_obj: ... return {'FINISHED'} else: ... return {'CANCELLED'} *)
RemeshFinalize ==
    /\ pc = "r_finalize"
    /\ stages' = Append(stages, "Finalizing")
    /\ IF new_obj # NoNewObj
       THEN /\ new_obj' = Finalize(new_obj, obj.matrix_world, obj.name \o "_remeshed")
            /\ host' = [host EXCEPT !.active = "new"]
            /\ reports' = Append(reports,
                   Report("INFO", "Remeshing completed successfully", NoDetail, "none"))
            /\ result' = "FINISHED"
       ELSE /\ reports' = Append(reports,
                   Report("ERROR", "Failed to import remeshed model", NoDetail, "none"))
            /\ result' = "CANCELLED"
            /\ UNCHANGED <<new_obj, host>>
    /\ scratch' = ExitScratch(scratch)
    /\ pc' = "done"
    /\ UNCHANGED <<operator, prefs, props, obj, cmd, child, launches, proc, exc>>
    /\ UNCHANGED <<codecVars, cmdVars>>

(* except Exception as e: report, return {'CANCELLED'} *)
RemeshExcept ==
    /\ pc = "r_except"
    /\ reports' = Append(reports,
          Report("ERROR", "Error during remeshing", ExcStr(exc), "none"))
    /\ result' = "CANCELLED"
    /\ scratch' = ExitScratch(scratch)
    /\ pc' = "done"
    /\ UNCHANGED <<operator, prefs, props, obj, cmd, child, launches, proc, exc,
                   host, new_obj, stages>>
    /\ UNCHANGED <<codecVars, cmdVars>>

Next ==
    \/ ProbeValidate \/ ProbeRun \/ ProbeWait \/ ProbeResult \/ ProbeExcept
    \/ RemeshValidate \/ RemeshEncode \/ RemeshBuild \/ RemeshRun \/ RemeshWait
    \/ RemeshCheck \/ RemeshImport \/ RemeshFinalize \/ RemeshExcept

-----------------------------------------------------------------------------
(* The three specifications: each runs one part and holds the others still *)

CodecOff ==
    /\ c_pc = "off" /\ c_obj = NoObj /\ c_origin = "none" /\ c_text = <<>>
    /\ c_readable = TRUE /\ c_decoded = DecodeFailed

CmdOff == k_pc = "off" /\ k_props = DefaultProps /\ k_cmd = <<>>

OpOff ==
    /\ pc = "off" /\ operator = "none"
    /\ prefs = [executable_path |-> "", exists |-> FALSE, xok |-> FALSE]
    /\ props = DefaultProps
    /\ obj = [name |-> "", data |-> NoObj.data, matrix_world |-> Identity]
    /\ scratch = NoScratch /\ cmd = <<>> /\ child = NoChild /\ launches = 0
    /\ proc = NoProc /\ exc = "none" /\ reports = <<>> /\ result = "none"
    /\ host = NoHost /\ new_obj = NoNewObj /\ stages = <<>>

Init == OpInit /\ CodecOff /\ CmdOff
Spec == Init /\ [][Next]_vars

CodecSpecInit == CodecInit /\ CmdOff /\ OpOff
CodecSpec == CodecSpecInit /\ [][CodecNext]_vars

CmdSpecInit == CmdInit /\ CodecOff /\ OpOff
CmdSpec == CmdSpecInit /\ [][CmdNext]_vars

-----------------------------------------------------------------------------
(* Claims about the two operators (checked under Spec) *)

LastReport == reports[Len(reports)]

PathUsable(pr) == pr.executable_path # "" /\ pr.exists /\ pr.xok

(* C1: when the remesh operator has returned, however it ended, the
   temporary directory of the run and input.obj / output.obj in it are gone. *)
C1_ScratchRemoved ==
    (operator = "remesh" /\ pc = "done")
    => /\ ~scratch.dir
       /\ ~scratch.input.exists
       /\ ~scratch.output.exists

C1_Witness ==
    /\ operator = "remesh" /\ pc = "done"
    /\ result = "CANCELLED"
    /\ proc.wrote.exists
    /\ "Decoding" \in {stages[i] : i \in 1..Len(stages)}

(* C2: in both operators, an executable path that is empty, does not exist
   or is not executable makes the run fail at once, in validation, and
   subprocess.run is never called on the executable. *)
C2_PreflightBeforeSpawn ==
    (operator # "none" /\ ~PathUsable(prefs))
    => /\ launches = 0
       /\ pc = "done"
       /\ result = "CANCELLED"
       /\ stages = <<"Validating">>

(* C3: the remesh operator returns FINISHED only if the process exited with
   code 0 and left the output file; exit code 0 without the output file ends
   in a failure of its own kind, told apart by the NanoGUI and reprojection
   patterns in stdout or stderr, and nothing is decoded. *)
C3_SuccessContract ==
    (operator = "remesh" /\ pc = "done")
    => /\ result = "FINISHED"
          => (proc.done /\ proc.returncode = 0 /\ proc.wrote.exists)
       /\ (proc.done /\ proc.returncode = 0 /\ ~proc.wrote.exists)
          => LET gui   == NanoGUI \in (proc.stdout.has \cup proc.stderr.has)
                 repro == Reproject \in (proc.stdout.has \cup proc.stderr.has)
             IN  /\ result = "CANCELLED"
                 /\ LastReport.level = "ERROR"
                 /\ LastReport.msg # "Instant Meshes failed"
                 /\ LastReport.msg =
                      (IF gui THEN "Instant Meshes GUI initialization failed"
                       ELSE IF repro THEN "Instant Meshes failed to reproject the mesh"
                       ELSE "Output file not created")
                 /\ "Decoding" \notin {stages[i] : i \in 1..Len(stages)}
                 /\ host = HostInit
                 /\ new_obj = NoNewObj

C3_Witness ==
    /\ operator = "remesh" /\ pc = "done"
    /\ proc.done /\ proc.returncode = 0 /\ ~proc.wrote.exists
    /\ Contains(proc.stdout, Reproject)
    /\ ~Contains(proc.stdout, NanoGUI) /\ ~Contains(proc.stderr, NanoGUI)
    /\ Contains(proc.stderr, SharedLib)

(* The report of a timeout: the probe's own message, or the remesh
   operator's exception report carrying the text of TimeoutExpired *)
TimedOutReport(r) ==
    \/ r.msg = "Executable test timed out"
    \/ r.msg = "Error during remeshing" /\ r.detail = ExcStr("TimeoutExpired")

TimeoutOf(op) == IF op = "probe" THEN ProbeTimeout ELSE RemeshTimeout

RanTooLong == child.state # "none" /\ child.ran > TimeoutOf(operator)

(* C4: a child that runs longer than the timeout (120 s for the remesh run,
   10 s for the --help run) is killed before the operator returns, and the
   run ends in a failure reported as a timeout, which no other failure is. *)
C4_Timeout ==
    (operator # "none" /\ pc = "done")
    => /\ child.state # "running"
       /\ RanTooLong => /\ child.state = "killed"
                        /\ result = "CANCELLED"
                        /\ TimedOutReport(LastReport)
       /\ (~RanTooLong /\ reports # <<>>) => ~TimedOutReport(LastReport)

C4_Witness ==
    /\ operator = "remesh" /\ pc = "done"
    /\ child.state = "killed"
    /\ child.ran = RemeshTimeout + 1

(* C5: after a successful remesh in which the tool gave back the vertices it
   was given, every vertex of the result is at the world position (matrix_world
   applied to the stored coordinates) of the same vertex of the original, up
   to the six decimals of the file. *)
C5_WorldPositionKept ==
    (/\ operator = "remesh" /\ pc = "done" /\ result = "FINISHED"
     /\ new_obj.via = "manual"
     /\ proc.wrote = File(WriteObj(obj, TRUE)))
    => /\ Len(new_obj.vertices) = Len(obj.data.verts)
       /\ \A i \in 1..Len(obj.data.verts) : \A a \in 1..3 :
             2 * Abs(Apply(new_obj.matrix_world, new_obj.vertices[i])[a]
                     - Apply(obj.matrix_world, obj.data.verts[i])[a]) <= SubUnits

(* C7 as stated: stderr containing "cannot open shared object file" makes the
   run a missing-library failure whatever the exit code. *)
C7_SharedLibAnyExit ==
    (operator = "remesh" /\ pc = "done" /\ proc.done /\ Contains(proc.stderr, SharedLib))
    => /\ result = "CANCELLED"
       /\ LastReport.hint = "MissingLibrary"

(* C7 as amended: when the process exits with a non-zero code and its stderr
   contains "cannot open shared object file", the run is a missing-library
   failure, whatever else stderr contains. *)
C7_SharedLibNonZeroExit ==
    (/\ operator # "none" /\ pc = "done" /\ proc.done
     /\ proc.returncode # 0 /\ Contains(proc.stderr, SharedLib))
    => /\ result = "CANCELLED"
       /\ LastReport.level = "ERROR"
       /\ LastReport.hint = "MissingLibrary"
       /\ LastReport.detail = Strip(proc.stderr)

C7_Witness ==
    /\ operator = "remesh" /\ pc = "done" /\ proc.done
    /\ proc.returncode # 0
    /\ {SharedLib, NoSuchFile, PermDenied} \subseteq proc.stderr.has
    /\ proc.wrote.exists

ErrorReports == {i \in 1..Len(reports) : reports[i].level = "ERROR"}

(* C11: a failure of the remesh operator at any stage after validation
   (encoding, invoking, waiting for the output, decoding, finalizing) ends the
   run in the failed outcome: execute returns CANCELLED with one error report
   that carries a reason, and no exception leaves execute. *)
C11_FailureIsCancelled ==
    (/\ operator = "remesh" /\ pc = "done"
     /\ Len(stages) > 1
     /\ result # "FINISHED")
    => /\ result = "CANCELLED"
       /\ Cardinality(ErrorReports) = 1
       /\ LastReport.level = "ERROR"
       /\ LastReport.msg # ""

(* C12: whenever the remesh operator returns CANCELLED, no partial result is
   left: no mesh or object made by read_obj_file remains in the host data or
   linked to the collection, and the selection, the active object and the
   original object with its data and transform are as before the run. *)
C12_NoPartialResult ==
    (operator = "remesh" /\ pc = "done" /\ result = "CANCELLED")
    => /\ host.meshes = HostInit.meshes
       /\ host.objects = HostInit.objects
       /\ host.linked = HostInit.linked
       /\ host.selected = HostInit.selected
       /\ host.active = HostInit.active
       /\ new_obj = NoNewObj
       /\ obj \in RunObjs

(* The category a pattern stands for *)
CategoryOf(pattern) ==
    CASE pattern = SharedLib  -> "MissingLibrary"
      [] pattern = PermDenied -> "PermissionDenied"
      [] pattern = NoSuchFile -> "NoSuchFile"
      [] pattern = NanoGUI    -> "DisplayInit"
      [] pattern = Reproject  -> "Reprojection"

(* The category of the first pattern of order that is among found, or
   "Unknown" *)
FirstMatch(order, found) ==
    LET hit == {i \in 1..Len(order) : order[i] \in found}
    IN  IF hit = {} THEN "Unknown"
        ELSE CategoryOf(order[CHOOSE i \in hit : \A j \in hit : i <= j])

(* The category a failure report tells the user *)
ReportCategory(r) ==
    IF r.hint = "MissingLibrary" THEN "MissingLibrary"
    ELSE IF r.hint = "PermissionDenied" THEN "PermissionDenied"
    ELSE IF r.hint = "NoSuchFile" THEN "NoSuchFile"
    ELSE IF r.msg = "Instant Meshes GUI initialization failed" THEN "DisplayInit"
    ELSE IF r.msg = "Instant Meshes failed to reproject the mesh" THEN "Reprojection"
    ELSE "Unknown"

(* A remesh run that ended in the classification of the finished process *)
FailedAtCheck ==
    /\ operator = "remesh" /\ pc = "done" /\ proc.done
    /\ result = "CANCELLED"
    /\ stages[Len(stages)] = "AwaitingOutput"

(* C13 as stated: for a failed remesh run the patterns are tried in the order
   missing shared library, permission denied, missing file, GUI
   initialisation, reprojection, and the first found decides the category (so
   "Permission denied" wins over "No such file or directory"); with no pattern
   found the category is unknown and the raw stderr is reported unchanged. *)
C13_ClaimedOrder ==
    FailedAtCheck
    => LET found == proc.stderr.has \cup proc.stdout.has
           category == FirstMatch(<<SharedLib, PermDenied, NoSuchFile, NanoGUI,
                                    Reproject>>, found)
       IN  /\ ReportCategory(LastReport) = category
           /\ (category = "Unknown" /\ proc.returncode # 0 /\ ~proc.stderr.blank)
                 => LastReport.detail = proc.stderr

(* C13 as amended: after a non-zero exit the stripped stderr is searched in
   the order missing shared library, missing file, permission denied, so that
   "No such file or directory" wins over "Permission denied", and with none of
   the three in a non-empty stderr the stripped stderr is reported with no
   hint; an empty stderr is replaced by a message of the operator. The GUI and
   reprojection patterns are searched, in this order and in stdout and stderr,
   only after exit code 0 without an output file. *)
C13_CodeOrder ==
    FailedAtCheck
    => IF proc.returncode # 0
       THEN /\ LastReport.msg = "Instant Meshes failed"
            /\ ReportCategory(LastReport)
                 = FirstMatch(<<SharedLib, NoSuchFile, PermDenied>>, proc.stderr.has)
            /\ ~proc.stderr.blank => LastReport.detail = Strip(proc.stderr)
            /\ proc.stderr.blank
                 => /\ LastReport.detail.id # proc.stderr.id
                    /\ LastReport.hint = "none"
       ELSE /\ ReportCategory(LastReport)
                 = FirstMatch(<<NanoGUI, Reproject>>,
                              proc.stderr.has \cup proc.stdout.has)
            /\ LastReport.detail = NoDetail

C13_Witness ==
    /\ FailedAtCheck
    /\ proc.returncode # 0
    /\ proc.stderr.has = {PermDenied, NoSuchFile, NanoGUI}
    /\ proc.stderr.ws

StageOrder ==
    <<"Validating", "Encoding", "Invoking", "AwaitingOutput", "Decoding", "Finalizing">>

(* The stages entered so far are the first ones of StageOrder, each once *)
StagesInOrder ==
    /\ Len(stages) <= Len(StageOrder)
    /\ \A i \in 1..Len(stages) : stages[i] = StageOrder[i]

(* Once an error is reported or an exception has left execute, the run is
   over: no action is left to enter a stage or start the executable *)
StoppedAfterFailure ==
    (ErrorReports # {} \/ result = "RAISED") => pc = "done"

(* A run that ended without success has exactly one error report *)
FailureReportedOnce ==
    (pc = "done" /\ result # "FINISHED") => Cardinality(ErrorReports) = 1

(* C14: a run of the remesh operator enters its stages in the order validate,
   encode, invoke, check output, decode, finalize, none twice and none after a
   failure was reported; the executable is started at most once in a run,
   never again after a failure; and each failure is reported exactly once. *)
C14_LinearRun ==
    operator = "remesh"
    => /\ StagesInOrder
       /\ StoppedAfterFailure
       /\ launches <= 1
       /\ Cardinality(ErrorReports) <= 1
       /\ FailureReportedOnce

====
